---- MODULE Spec2Model ----
(***************************************************************************)
(* A model of schedule/periods.py: the Period hierarchy (Year, Month,      *)
(* Week, Day), its date-range arithmetic, navigation, decomposition into   *)
(* sub-periods, the occurrence cache and the classification of             *)
(* occurrences against a period.                                           *)
(*                                                                         *)
(* A datetime is a record [t, tz]: t is the wall-clock time in hours since *)
(* midnight of proleptic Gregorian ordinal 0 (ordinal 1 is 0001-01-01, as  *)
(* in Python's datetime), tz names the tzinfo ("None" for a naive value).  *)
(* Aware datetimes are compared by their UTC instant, as Python does.      *)
(***************************************************************************)
EXTENDS Integers, Sequences, FiniteSets, TLC

VARIABLES settings, events, zone, period, last, children, result, calls, nav

vars == <<settings, events, zone, period, last, children, result, calls, nav>>

(***************************************************************************)
(* Bounds of the model.                                                    *)
(***************************************************************************)
MinYear == 2018
MaxYear == 2030
WindowLen == 7
MaxNav == 1
NumEvents == 2
MaxDayNumber == 31
NumOccDates == 2

(***************************************************************************)
(* Python's datetime arithmetic (proleptic Gregorian calendar).            *)
(***************************************************************************)
IsLeap(y) == (y % 4 = 0) /\ ((y % 100 # 0) \/ (y % 400 = 0))

DaysInMonth(y, m) ==
    IF m = 2 THEN (IF IsLeap(y) THEN 29 ELSE 28)
    ELSE IF m \in {4, 6, 9, 11} THEN 30 ELSE 31

DaysBeforeYear(y) ==
    (y - 1) * 365 + ((y - 1) \div 4) - ((y - 1) \div 100) + ((y - 1) \div 400)

RECURSIVE DaysBeforeMonth(_, _)
DaysBeforeMonth(y, m) ==
    IF m = 1 THEN 0 ELSE DaysBeforeMonth(y, m - 1) + DaysInMonth(y, m - 1)

\* datetime.date(y, m, d).toordinal()
ToOrdinal(y, m, d) == DaysBeforeYear(y) + DaysBeforeMonth(y, m) + d

\* date.fromordinal(n).year / .month / .day
YearOf(n) ==
    CHOOSE y \in MinYear..MaxYear :
        DaysBeforeYear(y) < n /\ n <= DaysBeforeYear(y + 1)

MonthOf(n) ==
    LET y == YearOf(n)
    IN  CHOOSE m \in 1..12 :
            ToOrdinal(y, m, 1) <= n /\ n < ToOrdinal(y, m, 1) + DaysInMonth(y, m)

DayOf(n) == n - ToOrdinal(YearOf(n), MonthOf(n), 1) + 1

\* date.isoweekday(): Monday is 1, Sunday is 7
IsoWeekday(n) == IF n % 7 = 0 THEN 7 ELSE n % 7

\* the tzinfo values: naive, pytz.utc, and two fixed-offset zones
Zones == {"UTC", "East", "West"}

UtcOffset(tz) ==
    CASE tz = "East" -> 2
      [] tz = "West" -> 0 - 5
      [] OTHER -> 0

\* datetime.datetime(y, m, d, tzinfo=tz), at midnight
DateTime(y, m, d, tz) == [t |-> ToOrdinal(y, m, d) * 24, tz |-> tz]

\* dt.date(), as an ordinal
DateOf(dt) == dt.t \div 24

\* dt + datetime.timedelta(days=n): wall-clock arithmetic, tzinfo kept
AddDays(dt, n) == [t |-> dt.t + n * 24, tz |-> dt.tz]

\* the UTC instant two aware datetimes are compared by
Instant(dt) == dt.t - UtcOffset(dt.tz)

DtLt(a, b) == Instant(a) < Instant(b)
DtLe(a, b) == Instant(a) <= Instant(b)
DtEq(a, b) == Instant(a) = Instant(b)

(***************************************************************************)
(* Period.__init__ and the constructors of its subclasses.                 *)
(***************************************************************************)
NoPool == [given |-> FALSE, list |-> <<>>]
Pool(list) == [given |-> TRUE, list |-> list]
NoCache == [cached |-> FALSE, list |-> <<>>]

\* Period._get_tzinfo
GetTzinfo(tzinfo) == IF settings.USE_TZ THEN tzinfo ELSE "None"

\* Period.__init__: tzinfo is the argument the caller passes on (every
\* subclass leaves it at its default, pytz.utc)
PeriodInit(cls, start, end, parent_persisted, pool, tzinfo) ==
    [cls |-> cls, start |-> start, end |-> end,
     tzinfo |-> GetTzinfo(tzinfo),
     occurrence_pool |-> pool,
     persisted_occurrences |-> parent_persisted,
     occurrences |-> NoCache]

\* Year._get_year_range
GetYearRange(date, tzinfo) ==
    LET y == YearOf(DateOf(date))
    IN  <<DateTime(y, 1, 1, tzinfo), DateTime(y + 1, 1, 1, tzinfo)>>

\* Month._get_month_range
GetMonthRange(date, tzinfo) ==
    LET year == YearOf(DateOf(date))
        month == MonthOf(DateOf(date))
        start == DateTime(year, month, 1, tzinfo)
    IN  IF month = 12
        THEN <<start, DateTime(year + 1, 1, 1, tzinfo)>>
        ELSE <<start, DateTime(year, month + 1, 1, tzinfo)>>

\* Week._get_week_range without the Sunday case (sub_days stays 7 on a Sunday)
GetWeekRangeNoSundayCase(date, tzinfo) ==
    LET start0 == [t |-> DateOf(date) * 24, tz |-> tzinfo]
        iso == IsoWeekday(DateOf(start0))
        sub_days == IF settings.FIRST_DAY_OF_WEEK = 1 THEN iso - 1 ELSE iso
        start == IF sub_days > 0 THEN AddDays(start0, 0 - sub_days) ELSE start0
    IN  <<start, AddDays(start, 7)>>

\* Week._get_week_range
GetWeekRange(date, tzinfo) ==
    LET start0 == [t |-> DateOf(date) * 24, tz |-> tzinfo]
        iso == IsoWeekday(DateOf(start0))
        sub_days == IF settings.FIRST_DAY_OF_WEEK = 1
                    THEN iso - 1
                    ELSE IF iso = 7 THEN 0 ELSE iso
        start == IF sub_days > 0 THEN AddDays(start0, 0 - sub_days) ELSE start0
    IN  <<start, AddDays(start, 7)>>

\* Day._get_day_range
GetDayRange(date, tzinfo) ==
    LET start == [t |-> DateOf(date) * 24, tz |-> tzinfo]
    IN  <<start, AddDays(start, 1)>>

\* Year.__init__: no occurrence_pool parameter, tzinfo not handed to Period
YearInit(date, parent_persisted, tzinfo) ==
    LET r == GetYearRange(date, GetTzinfo(tzinfo))
    IN  PeriodInit("Year", r[1], r[2], parent_persisted, NoPool, "UTC")

\* Month.__init__
MonthInit(date, parent_persisted, pool, tzinfo) ==
    LET r == GetMonthRange(date, GetTzinfo(tzinfo))
    IN  PeriodInit("Month", r[1], r[2], parent_persisted, pool, "UTC")

\* Week.__init__
WeekInit(date, parent_persisted, pool, tzinfo) ==
    LET r == GetWeekRange(date, GetTzinfo(tzinfo))
    IN  PeriodInit("Week", r[1], r[2], parent_persisted, pool, "UTC")

\* Day.__init__
DayInit(date, parent_persisted, pool, tzinfo) ==
    LET r == GetDayRange(date, GetTzinfo(tzinfo))
    IN  PeriodInit("Day", r[1], r[2], parent_persisted, pool, "UTC")

\* cls(events, date, parent_persisted_occurrences, occurrence_pool, tzinfo)
New(cls, date, parent_persisted, pool, tzinfo) ==
    CASE cls = "Year" -> YearInit(date, parent_persisted, tzinfo)
      [] cls = "Month" -> MonthInit(date, parent_persisted, pool, tzinfo)
      [] cls = "Week" -> WeekInit(date, parent_persisted, pool, tzinfo)
      [] OTHER -> DayInit(date, parent_persisted, pool, tzinfo)

(***************************************************************************)
(* Navigation: next, prev and the enclosing periods.  Every one of them    *)
(* calls the constructor with the events and a date only.                  *)
(***************************************************************************)
\* Year.next_year, Month.next_month, Week.next_week, Day.next_day
NextOf(p) == New(p.cls, p.end, FALSE, NoPool, "UTC")

\* the date prev_year, prev_month, prev_week, prev_day hand to the constructor
PrevDate(p) ==
    CASE p.cls = "Year" ->
            DateTime(YearOf(DateOf(p.start)) - 1, MonthOf(DateOf(p.start)),
                     DayOf(DateOf(p.start)), p.tzinfo)
      [] p.cls = "Month" ->
            LET d == AddDays(p.start, 0 - 1)
            IN  DateTime(YearOf(DateOf(d)), MonthOf(DateOf(d)), 1, p.tzinfo)
      [] p.cls = "Week" -> AddDays(p.start, 0 - 7)
      [] OTHER -> AddDays(p.start, 0 - 1)

\* Year.prev_year, Month.prev_month, Week.prev_week, Day.prev_day
PrevOf(p) == New(p.cls, PrevDate(p), FALSE, NoPool, "UTC")

\* the upward navigation each variant offers
UpKinds(cls) ==
    CASE cls = "Month" -> {"current_year", "prev_year", "next_year"}
      [] cls = "Week" -> {"current_month", "current_year"}
      [] cls = "Day" -> {"current_year", "current_month", "current_week"}
      [] OTHER -> {}

\* the date the upward navigation hands to the constructor
UpDate(p, kind) ==
    CASE kind = "prev_year" -> DateTime(YearOf(DateOf(p.start)) - 1, 1, 1, p.tzinfo)
      [] kind = "next_year" -> DateTime(YearOf(DateOf(p.start)) + 1, 1, 1, p.tzinfo)
      [] OTHER -> p.start

\* current_year, current_month, current_week, Month.prev_year, Month.next_year
UpOf(p, kind) ==
    CASE kind = "current_month" -> MonthInit(UpDate(p, kind), FALSE, NoPool, "UTC")
      [] kind = "current_week" -> WeekInit(UpDate(p, kind), FALSE, NoPool, "UTC")
      [] OTHER -> YearInit(UpDate(p, kind), FALSE, "UTC")

(***************************************************************************)
(* Occurrences and events.  An occurrence is [id, event, start, end,       *)
(* cancelled]; `events` holds the occurrences the events generate now.     *)
(***************************************************************************)
OccTz == IF settings.USE_TZ THEN "UTC" ELSE "None"

Occ(id, ev, start, end, cancelled) ==
    [id |-> id, event |-> ev, start |-> start, end |-> end, cancelled |-> cancelled]

At(y, m, d, hour) == [t |-> ToOrdinal(y, m, d) * 24 + hour, tz |-> OccTz]

\* the occurrences the events can generate
StoreOccs ==
    { Occ(1, 2, At(2024, 1, 31, 12), At(2024, 1, 31, 18), FALSE),
      Occ(2, 1, At(2024, 2, 1, 18), At(2024, 2, 2, 6), TRUE) }

\* a set of occurrences as a list, by id
RECURSIVE ById(_)
ById(S) ==
    IF S = {} THEN <<>>
    ELSE LET o == CHOOSE x \in S : \A y \in S : x.id <= y.id
         IN  <<o>> \o ById(S \ {o})

\* Event.get_occurrences(start, end): the occurrences of the event that
\* overlap the half-open range
EventGetOccurrences(ev, start, end) ==
    ById({o \in events : o.event = ev /\ DtLt(o.start, end) /\ DtLt(start, o.end)})

\* the ordering of Occurrence: by start, then by end
OccLess(a, b) ==
    \/ DtLt(a.start, b.start)
    \/ DtEq(a.start, b.start) /\ DtLt(a.end, b.end)

\* sorted(occurrences): a stable sort
RECURSIVE Insert(_, _)
Insert(o, s) ==
    IF s = <<>> THEN <<o>>
    ELSE IF OccLess(o, Head(s)) THEN <<o>> \o s
    ELSE <<Head(s)>> \o Insert(o, Tail(s))

RECURSIVE Sorted(_)
Sorted(s) ==
    IF s = <<>> THEN <<>>
    ELSE Insert(s[Len(s)], Sorted(SubSeq(s, 1, Len(s) - 1)))

RECURSIVE AllEventOccurrences(_, _, _)
AllEventOccurrences(n, start, end) ==
    IF n = 0 THEN <<>>
    ELSE AllEventOccurrences(n - 1, start, end) \o EventGetOccurrences(n, start, end)

InRangeOfPool(p, o) == DtLt(o.start, p.end) /\ DtLt(p.start, o.end)

\* Period._get_sorted_occurrences
GetSortedOccurrences(p) ==
    IF p.occurrence_pool.given
    THEN SelectSeq(p.occurrence_pool.list, LAMBDA o : InRangeOfPool(p, o))
    ELSE Sorted(AllEventOccurrences(NumEvents, p.start, p.end))

\* cached_get_sorted_occurrences without the hasattr test: computes every time
CachedGetSortedOccurrencesNoTest(p) ==
    [p |-> [p EXCEPT !.occurrences =
                [cached |-> TRUE, list |-> GetSortedOccurrences(p)]],
     calls |-> IF p.occurrence_pool.given THEN 0 ELSE NumEvents]

\* Period.cached_get_sorted_occurrences: the period after the access and the
\* number of Event.get_occurrences calls the access made
CachedGetSortedOccurrences(p) ==
    IF p.occurrences.cached
    THEN [p |-> p, calls |-> 0]
    ELSE [p |-> [p EXCEPT !.occurrences =
                    [cached |-> TRUE, list |-> GetSortedOccurrences(p)]],
          calls |-> IF p.occurrence_pool.given THEN 0 ELSE NumEvents]

\* Period.get_persisted_occurrences: sets _persisted_occurrences
GetPersistedOccurrences(p) == [p EXCEPT !.persisted_occurrences = TRUE]

(***************************************************************************)
(* Classification.                                                         *)
(***************************************************************************)
NoOcc == Occ(0, 0, [t |-> 0, tz |-> "None"], [t |-> 0, tz |-> "None"], FALSE)
None == [some |-> FALSE, occurrence |-> NoOcc, class |-> 0 - 1]
Classified(o, c) == [some |-> TRUE, occurrence |-> o, class |-> c]

\* classify_occurrence with the classes of "started only" and "ended only"
\* exchanged
ClassifyOccurrenceSwapped(p, o) ==
    IF o.cancelled /\ ~settings.SHOW_CANCELLED_OCCURRENCES THEN None
    ELSE IF DtLt(p.end, o.start) \/ DtLt(o.end, p.start) THEN None
    ELSE LET started == DtLe(p.start, o.start) /\ DtLt(o.start, p.end)
             ended == DtLe(p.start, o.end) /\ DtLt(o.end, p.end)
         IN  IF started /\ ended THEN Classified(o, 1)
             ELSE IF started THEN Classified(o, 3)
             ELSE IF ended THEN Classified(o, 0)
             ELSE Classified(o, 2)

\* classify_occurrence without the test of the cancelled flag
ClassifyOccurrenceNoCancelTest(p, o) ==
    IF DtLt(p.end, o.start) \/ DtLt(o.end, p.start) THEN None
    ELSE LET started == DtLe(p.start, o.start) /\ DtLt(o.start, p.end)
             ended == DtLe(p.start, o.end) /\ DtLt(o.end, p.end)
         IN  IF started /\ ended THEN Classified(o, 1)
             ELSE IF started THEN Classified(o, 0)
             ELSE IF ended THEN Classified(o, 3)
             ELSE Classified(o, 2)

\* Period.classify_occurrence
ClassifyOccurrence(p, o) ==
    IF o.cancelled /\ ~settings.SHOW_CANCELLED_OCCURRENCES THEN None
    ELSE IF DtLt(p.end, o.start) \/ DtLt(o.end, p.start) THEN None
    ELSE LET started == DtLe(p.start, o.start) /\ DtLt(o.start, p.end)
             ended == DtLe(p.start, o.end) /\ DtLt(o.end, p.end)
         IN  IF started /\ ended THEN Classified(o, 1)
             ELSE IF started THEN Classified(o, 0)
             ELSE IF ended THEN Classified(o, 3)
             ELSE Classified(o, 2)

RECURSIVE Partials(_, _)
Partials(p, occs) ==
    IF occs = <<>> THEN <<>>
    ELSE LET c == ClassifyOccurrence(p, Head(occs))
         IN  (IF c.some THEN <<c>> ELSE <<>>) \o Partials(p, Tail(occs))

\* Period.get_occurrence_partials, on the cached occurrences
GetOccurrencePartials(p) == Partials(p, p.occurrences.list)

\* Period.has_occurrences, on the cached occurrences
HasOccurrences(p) ==
    \E i \in 1..Len(p.occurrences.list) :
        ClassifyOccurrence(p, p.occurrences.list[i]).some

(***************************************************************************)
(* Decomposition into sub-periods.                                         *)
(***************************************************************************)
\* the parent after the two accesses create_sub_period makes
AfterSubPeriod(p) == GetPersistedOccurrences(CachedGetSortedOccurrences(p).p)

\* Period.create_sub_period: the child
CreateSubPeriod(p, cls, start) ==
    New(cls, start, TRUE, Pool(AfterSubPeriod(p).occurrences.list), "UTC")

RECURSIVE PeriodsFrom(_, _, _, _)
PeriodsFrom(p, cls, cur, acc) ==
    IF DtLt(cur.start, p.end)
    THEN PeriodsFrom(p, cls, NextOf(cur), Append(acc, CreateSubPeriod(p, cls, cur.start)))
    ELSE acc

\* get_periods with the loop test period.start <= self.end
RECURSIVE PeriodsFromInclusive(_, _, _, _)
PeriodsFromInclusive(p, cls, cur, acc) ==
    IF DtLe(cur.start, p.end)
    THEN PeriodsFromInclusive(p, cls, NextOf(cur),
                              Append(acc, CreateSubPeriod(p, cls, cur.start)))
    ELSE acc

GetPeriodsInclusive(p, cls) ==
    PeriodsFromInclusive(p, cls, CreateSubPeriod(p, cls, p.start), <<>>)

\* Period.get_periods, run to exhaustion
GetPeriods(p, cls) == PeriodsFrom(p, cls, CreateSubPeriod(p, cls, p.start), <<>>)

\* Month.get_day
GetDay(p, daynumber) ==
    LET date == IF daynumber > 1 THEN AddDays(p.start, daynumber - 1) ELSE p.start
    IN  CreateSubPeriod(p, "Day", date)

\* Year.get_months, Month.get_weeks, Month.get_days, Week.get_days
SubKinds(cls) ==
    CASE cls = "Year" -> {"Month"}
      [] cls = "Month" -> {"Week", "Day"}
      [] cls = "Week" -> {"Day"}
      [] OTHER -> {}

(***************************************************************************)
(* The state machine.  `period` is the period object in hand, `zone` the   *)
(* tzinfo argument it (or the period it was reached from) was constructed  *)
(* with, `last` the operation that produced the state, `children` the      *)
(* sub-periods the last decomposition yielded, `result` what the last      *)
(* query returned, `calls` the number of Event.get_occurrences calls made  *)
(* on behalf of `period`, `nav` the number of periods left behind.         *)
(***************************************************************************)
Classes == {"Year", "Month", "Week", "Day"}

Settings ==
    [FIRST_DAY_OF_WEEK : {0, 1},
     SHOW_CANCELLED_OCCURRENCES : BOOLEAN,
     USE_TZ : BOOLEAN]

\* reference dates: the turn of the year, two days of a leap February and a
\* window of consecutive days across the end of that February
RefDates ==
    {ToOrdinal(2023, 12, 31), ToOrdinal(2024, 1, 1),
     ToOrdinal(2024, 2, 1), ToOrdinal(2024, 2, 15)}
    \cup {ToOrdinal(2024, 2, 26) + k : k \in 0..(WindowLen - 1)}

\* reference dates of the periods whose occurrences are queried
OccDates == {ToOrdinal(2024, 2, 1) + k : k \in 0..(NumOccDates - 1)}

NoResult ==
    [kind |-> "none", arg |-> NoOcc, classified |-> None,
     partials |-> <<>>, has |-> FALSE, list |-> <<>>]

Op(op, from, date, arg, n) ==
    [op |-> op, from |-> from, date |-> date, arg |-> arg, n |-> n]

\* the occurrences classify_occurrence is tried on: every start <= end among
\* the instants half a day before, at and half a day after each bound of the
\* period
ProbeTimes(p) ==
    {[t |-> Instant(b) + d, tz |-> OccTz] : b \in {p.start, p.end}, d \in {0 - 12, 0, 12}}

Probes(p) ==
    {o \in {Occ(9, 1, s, e, c) : s \in ProbeTimes(p), e \in ProbeTimes(p),
                                 c \in BOOLEAN} : o.start.t <= o.end.t}

InitWith(setts, dates) ==
    /\ settings \in setts
    /\ zone \in (IF settings.USE_TZ THEN Zones ELSE {"UTC"})
    /\ events = StoreOccs
    /\ \E cls \in Classes, d \in dates, h \in {0, 15} :
          /\ period = New(cls, [t |-> d * 24 + h, tz |-> GetTzinfo(zone)],
                          FALSE, NoPool, zone)
          /\ last = Op("construct", period, d, cls, 0)
    /\ children = <<>>
    /\ result = NoResult
    /\ calls = 0
    /\ nav = 0

InitCalendar ==
    InitWith({s \in Settings : ~s.SHOW_CANCELLED_OCCURRENCES}, RefDates)

InitClassify == InitWith(Settings, OccDates)

InitOccurrences == InitWith(Settings, OccDates)

\* leave `period` for another period object, constructed from `date`
NavTo(p, op, date, arg, n) ==
    /\ nav < MaxNav
    /\ period' = p
    /\ last' = Op(op, period, DateOf(date), arg, n)
    /\ children' = <<>>
    /\ result' = NoResult
    /\ calls' = 0
    /\ nav' = nav + 1
    /\ UNCHANGED <<settings, events, zone>>

\* next_year, next_month, next_week, next_day
Next_ == NavTo(NextOf(period), "next", period.end, period.cls, 0)

\* prev_year, prev_month, prev_week, prev_day
Prev_ == NavTo(PrevOf(period), "prev", PrevDate(period), period.cls, 0)

\* current_year, current_month, current_week, Month.prev_year, Month.next_year
Up ==
    \E kind \in UpKinds(period.cls) :
        NavTo(UpOf(period, kind), "up", UpDate(period, kind), kind, 0)

\* the caller goes on with one of the sub-periods it was given
Descend ==
    \E i \in 1..Len(children) :
        NavTo(children[i], "descend", children[i].start, period.cls, i)

\* get_months, get_weeks, get_days
GetPeriodsOp ==
    \E cls \in SubKinds(period.cls) :
        /\ children' = GetPeriods(period, cls)
        /\ period' = AfterSubPeriod(period)
        /\ calls' = calls + CachedGetSortedOccurrences(period).calls
        /\ last' = Op("get_periods", period', DateOf(period.start), cls, 0)
        /\ result' = NoResult
        /\ UNCHANGED <<settings, events, zone, nav>>

\* Month.get_day
GetDayOp ==
    /\ period.cls = "Month"
    /\ period' = AfterSubPeriod(period)
    /\ \E n \in 1..MaxDayNumber :
        /\ children' = <<GetDay(period, n)>>
        /\ last' = Op("get_day", period', DateOf(period.start), "Day", n)
    /\ calls' = calls + CachedGetSortedOccurrences(period).calls
    /\ result' = NoResult
    /\ UNCHANGED <<settings, events, zone, nav>>

\* what a query returns, from the period after its access of self.occurrences
Answer(kind, p) ==
    [NoResult EXCEPT !.kind = kind,
                     !.list = p.occurrences.list,
                     !.partials = IF kind = "partials"
                                  THEN GetOccurrencePartials(p) ELSE <<>>,
                     !.has = IF kind = "has" THEN HasOccurrences(p) ELSE FALSE]

\* a query on `period` that reads self.occurrences
Query(op, kind) ==
    LET c == CachedGetSortedOccurrences(period)
    IN  /\ period' = c.p
        /\ calls' = calls + c.calls
        /\ result' = Answer(kind, c.p)
        /\ last' = Op(op, period', DateOf(period.start), period.cls, 0)
        /\ children' = <<>>
        /\ UNCHANGED <<settings, events, zone, nav>>

\* Period.get_occurrences
GetOccurrencesOp == Query("get_occurrences", "occurrences")

\* Period.get_occurrence_partials
GetOccurrencePartialsOp == Query("get_occurrence_partials", "partials")

\* Period.has_occurrences
HasOccurrencesOp == Query("has_occurrences", "has")

\* Period.classify_occurrence on an occurrence of the caller's choice
ClassifyOp ==
    \E o \in Probes(period) \cup StoreOccs :
        /\ result' = [NoResult EXCEPT !.kind = "classify", !.arg = o,
                                      !.classified = ClassifyOccurrence(period, o)]
        /\ last' = Op("classify_occurrence", period, DateOf(period.start), period.cls, 0)
        /\ children' = <<>>
        /\ UNCHANGED <<settings, events, zone, period, calls, nav>>

\* the events change what they generate: an occurrence appears or goes
MutateEvents ==
    \E o \in StoreOccs :
        /\ events' = IF o \in events THEN events \ {o} ELSE events \cup {o}
        /\ last' = Op("mutate", period, DateOf(period.start), period.cls, 0)
        /\ children' = <<>>
        /\ result' = NoResult
        /\ UNCHANGED <<settings, zone, period, calls, nav>>

NextCalendar ==
    \/ Next_
    \/ Prev_
    \/ Up
    \/ GetPeriodsOp
    \/ GetDayOp
    \/ Descend

NextClassify == ClassifyOp

NextOccurrences ==
    \/ GetOccurrencesOp
    \/ GetOccurrencePartialsOp
    \/ HasOccurrencesOp
    \/ MutateEvents
    \/ GetPeriodsOp
    \/ Descend

\* the calendar: construction, navigation and decomposition
SpecCalendar == InitCalendar /\ [][NextCalendar]_vars

\* classify_occurrence applied to the occurrences around a period's bounds
SpecClassify == InitClassify /\ [][NextClassify]_vars

\* the occurrences of a period: the cache, classification, sub-periods
SpecOccurrences == InitOccurrences /\ [][NextOccurrences]_vars

(***************************************************************************)
(* Properties of the calendar (SpecCalendar).                              *)
(***************************************************************************)
Contiguous(ps) == \A i \in 1..(Len(ps) - 1) : DtEq(ps[i + 1].start, ps[i].end)

\* C1, as stated: the children get_periods yields are contiguous and cover
\* exactly the parent's range, from the parent's start to the parent's end
C1_ChildrenCoverExactly ==
    last.op = "get_periods" =>
        /\ Len(children) >= 1
        /\ Contiguous(children)
        /\ DtEq(children[1].start, period.start)
        /\ DtEq(children[Len(children)].end, period.end)

\* C1, amended: the children get_periods yields are of the requested variant,
\* contiguous and non-overlapping; the first is the period of that variant
\* holding the calendar date of the parent's start, every child starts before
\* the parent's end and the last child ends at or after the parent's end
C1_ChildrenContiguousToEnd ==
    last.op = "get_periods" =>
        /\ Len(children) >= 1
        /\ \A i \in 1..Len(children) :
              /\ children[i].cls = last.arg
              /\ DtLt(children[i].start, children[i].end)
              /\ DtLt(children[i].start, period.end)
        /\ Contiguous(children)
        /\ children[1].start.t <= period.start.t
        /\ period.start.t < children[1].end.t
        /\ DtLe(period.end, children[Len(children)].end)

\* a month whose weeks begin before the month and end after it
C1_Witness ==
    /\ last.op = "get_periods"
    /\ period.cls = "Month"
    /\ last.arg = "Week"
    /\ Len(children) >= 2
    /\ DtLt(children[1].start, period.start)
    /\ DtLt(period.end, children[Len(children)].end)

\* C5: next() and prev() return the adjacent sibling of the same variant
\* (next's start is the period's end, prev's end is the period's start), and
\* going back from it returns a period with the start and end left behind
C5_AdjacentSibling ==
    /\ last.op = "next" =>
          /\ period.cls = last.from.cls
          /\ DtEq(period.start, last.from.end)
          /\ DtEq(PrevOf(period).start, last.from.start)
          /\ DtEq(PrevOf(period).end, last.from.end)
    /\ last.op = "prev" =>
          /\ period.cls = last.from.cls
          /\ DtEq(period.end, last.from.start)
          /\ DtEq(NextOf(period).start, last.from.start)
          /\ DtEq(NextOf(period).end, last.from.end)

\* C6: a Week starts at midnight of the configured first weekday on or before
\* its reference date (isoweekday 1 for Monday, 7 for Sunday), holds the
\* midnight of the reference date and is seven days long
C6_WeekRange ==
    (period.cls = "Week" /\ last.op \in {"construct", "next", "prev", "up", "descend"}) =>
        LET ref == [t |-> last.date * 24, tz |-> period.start.tz]
        IN  /\ IsoWeekday(DateOf(period.start)) =
                  (IF settings.FIRST_DAY_OF_WEEK = 1 THEN 1 ELSE 7)
            /\ period.start.t % 24 = 0
            /\ DtLe(period.start, ref)
            /\ DtLt(ref, period.end)
            /\ period.end.t = period.start.t + 7 * 24

\* a week that starts on Sunday, constructed from a Wednesday
C6_Witness ==
    /\ period.cls = "Week"
    /\ last.op = "construct"
    /\ settings.FIRST_DAY_OF_WEEK = 0
    /\ IsoWeekday(last.date) = 3
    /\ period.start.t = (last.date - 3) * 24

\* C7: the days of a month, the months of a year and the days of a week tile
\* the parent exactly, in the calendar's number: as many days as the month
\* has, 12 months, 7 days
C7_ExactTiling ==
    (last.op = "get_periods" /\ <<period.cls, last.arg>> # <<"Month", "Week">>) =>
        /\ Len(children) =
              (CASE period.cls = "Year" -> 12
                 [] period.cls = "Week" -> 7
                 [] OTHER -> (Instant(period.end) - Instant(period.start)) \div 24)
        /\ Len(children) >= 1
        /\ DtEq(children[1].start, period.start)
        /\ DtEq(children[Len(children)].end, period.end)
        /\ Contiguous(children)
        /\ last.arg = "Day" =>
              \A i \in 1..Len(children) :
                  Instant(children[i].end) = Instant(children[i].start) + 24

\* C10: with time zones enabled a period stays in the zone it was constructed
\* with: its tzinfo, its start and its end, and those of every period reached
\* from it by navigation or decomposition
InZone(p) == p.tzinfo = zone /\ p.start.tz = zone /\ p.end.tz = zone

C10_StaysInZone ==
    settings.USE_TZ =>
        /\ InZone(period)
        /\ \A i \in 1..Len(children) : InZone(children[i])

(***************************************************************************)
(* Properties of classification (SpecClassify).                            *)
(***************************************************************************)
\* C2: classify_occurrence returns None for every occurrence outside the
\* half-open range (end <= period.start or start >= period.end), and a class
\* only for an occurrence that intersects it
C2_NoneOutsideHalfOpen ==
    last.op = "classify_occurrence" =>
        LET o == result.arg
        IN  (DtLe(o.end, period.start) \/ DtLe(period.end, o.start))
                => ~result.classified.some

\* C3: an occurrence neither suppressed nor rejected gets the one class its
\* started and ended flags determine, and the pair carries the occurrence
C3_ClassByStartedEnded ==
    last.op = "classify_occurrence" =>
        LET o == result.arg
            r == result.classified
            suppressed == o.cancelled /\ ~settings.SHOW_CANCELLED_OCCURRENCES
            rejected == Instant(o.start) > Instant(period.end)
                        \/ Instant(o.end) < Instant(period.start)
            started == Instant(period.start) <= Instant(o.start)
                       /\ Instant(o.start) < Instant(period.end)
            ended == Instant(period.start) <= Instant(o.end)
                     /\ Instant(o.end) < Instant(period.end)
        IN  (~suppressed /\ ~rejected) =>
                /\ r.some
                /\ r.occurrence = o
                /\ r.class = (IF started /\ ended THEN 1
                              ELSE IF started THEN 0
                              ELSE IF ended THEN 3 ELSE 2)
                /\ (Instant(o.start) < Instant(period.start)
                    /\ Instant(o.end) > Instant(period.end)) => r.class = 2

\* an occurrence that starts in the period and ends after it: class 0
C3_Witness ==
    /\ last.op = "classify_occurrence"
    /\ result.classified.some
    /\ result.classified.class = 0
    /\ DtLt(period.start, result.arg.start)
    /\ DtLt(period.end, result.arg.end)

(***************************************************************************)
(* Properties of the occurrences of a period (SpecOccurrences).            *)
(***************************************************************************)
\* what the events return now for the range of p
FromEvents(p) == GetSortedOccurrences([p EXCEPT !.occurrence_pool = NoPool])

AllCancelled(list) == \A i \in 1..Len(list) : list[i].cancelled

\* C4: with the display of cancelled occurrences off, classify_occurrence
\* returns None for every cancelled occurrence whatever its overlap, no
\* cancelled occurrence is among the partials and a period whose occurrences
\* are all cancelled has none; with the display on, a cancelled occurrence is
\* classified like the same occurrence not cancelled
C4_CancelledSuppressed ==
    /\ ~settings.SHOW_CANCELLED_OCCURRENCES =>
          /\ \A o \in Probes(period) \cup StoreOccs :
                o.cancelled => ~ClassifyOccurrence(period, o).some
          /\ result.kind = "partials" =>
                \A i \in 1..Len(result.partials) :
                    ~result.partials[i].occurrence.cancelled
          /\ (result.kind = "has" /\ AllCancelled(result.list)) => ~result.has
    /\ settings.SHOW_CANCELLED_OCCURRENCES =>
          \A o \in Probes(period) \cup StoreOccs :
              LET c == ClassifyOccurrence(period, o)
                  d == ClassifyOccurrence(period, [o EXCEPT !.cancelled = FALSE])
              IN  c.some = d.some /\ c.class = d.class

\* has_occurrences answered false for a period whose one occurrence is
\* cancelled and overlaps it
C4_Witness ==
    /\ ~settings.SHOW_CANCELLED_OCCURRENCES
    /\ last.op = "has_occurrences"
    /\ Len(result.list) >= 1
    /\ AllCancelled(result.list)
    /\ ~result.has

\* C8: once the occurrences of a period object are computed, every later
\* access on that object returns the list computed first and calls no
\* event's get_occurrences, whatever the events would return now
C8_ComputedOnce ==
    [][(period.occurrences.cached /\ nav' = nav) =>
          /\ period'.occurrences = period.occurrences
          /\ calls' = calls
          /\ result'.kind \in {"occurrences", "partials", "has"} =>
                result'.list = period.occurrences.list]_vars

\* an access that returned the cached list although the events would now
\* return other occurrences
C8_Witness ==
    /\ last.op = "get_occurrences"
    /\ ~period.occurrence_pool.given
    /\ period.occurrences.cached
    /\ calls = NumEvents
    /\ result.list = period.occurrences.list
    /\ result.list # FromEvents(period)

\* the period of the child's variant constructed directly from the events and
\* the child's anchor date
Direct(child) == New(child.cls, child.start, FALSE, NoPool, "UTC")

\* C9: a child made by create_sub_period or get_periods reports the same
\* occurrences as the period of its variant constructed directly from the same
\* events and anchor date (the parent's list being what the events return)
C9_ChildAsDirect ==
    (/\ last.op \in {"get_periods", "get_day"}
     /\ period.occurrences.list = FromEvents(period)) =>
        \A i \in 1..Len(children) :
            /\ Direct(children[i]).start = children[i].start
            /\ Direct(children[i]).end = children[i].end
            /\ GetSortedOccurrences(children[i])
                 = GetSortedOccurrences(Direct(children[i]))

====
